---- MODULE Spec2Model ----
(***************************************************************************)
(* Stack-frame recovery pass of fcd (src/fcd/pass_locals.cpp).             *)
(*                                                                         *)
(* Four specifications share the definitions below:                       *)
(*   SpecPad     applies OverlappingTypedAccesses::pad to a byte gap;      *)
(*   SpecLayout  runs LlvmStackFrame::representObject on one structure,    *)
(*               one iteration of its field loop per step;                 *)
(*   SpecLeaf    runs LlvmStackFrame::representObject on one leaf, given   *)
(*               the loads, stores and other users of its offset value;    *)
(*   Spec        runs IdentifyLocals::runOnFunction on a function, twice.  *)
(***************************************************************************)
EXTENDS Integers, Sequences, FiniteSets, TLC

VARIABLES
    padIn, padOut,                      \* pad: the byte difference, the emitted types
    layObj, layU, lay,                  \* layout: the structure, its leaves' types, the loop state
    insts, hasMd, ndebug, pc, run, results, before, root, frame, stackFrame, nextObj, casts

padVars == <<padIn, padOut>>
layVars == <<layObj, layU, lay>>
passVars == <<insts, hasMd, ndebug, pc, run, results, before, root, frame, stackFrame, nextObj, casts>>
vars == <<padIn, padOut, layObj, layU, lay,
          insts, hasMd, ndebug, pc, run, results, before, root, frame, stackFrame, nextObj, casts>>

(***************************************************************************)
(* Bounds of the model.                                                    *)
(***************************************************************************)
MaxGap == 64        \* pad is applied to the differences 1..MaxGap
MaxFields == 3      \* SpecLayout: at most this many constant-offset children
MaxOffset == 5      \* SpecLayout: normalized child offsets are 0..MaxOffset
MaxSlots == 2       \* Spec: at most this many constant offsets added to the stack pointer
MaxRuns == 2        \* Spec: the pass is run this many times on the function
MaxWitnesses == 3   \* SpecLeaf: at most this many loads and stores through the leaf

(***************************************************************************)
(* Sequence helpers.                                                       *)
(***************************************************************************)
RECURSIVE Reverse(_)
Reverse(s) == IF s = <<>> THEN <<>> ELSE Reverse(Tail(s)) \o <<Head(s)>>

RECURSIVE ascending(_)
\* the elements of a set of integers in ascending order
ascending(S) ==
    IF S = {} THEN <<>>
    ELSE LET m == CHOOSE x \in S : \A y \in S : x <= y
         IN  <<m>> \o ascending(S \ {m})

(***************************************************************************)
(* The host IR's types, as the pass uses them.  Every type is a record of  *)
(* the same shape: k the type id, n the bit width (int) or element count   *)
(* (arr), sub the element types (one for ptr and arr, the body of struct). *)
(***************************************************************************)
IntTy(bits) == [k |-> "int", n |-> bits, sub |-> <<>>]
FloatTy == [k |-> "float", n |-> 0, sub |-> <<>>]
DoubleTy == [k |-> "double", n |-> 0, sub |-> <<>>]
PtrTy(t) == [k |-> "ptr", n |-> 0, sub |-> <<t>>]
ArrTy(t, count) == [k |-> "arr", n |-> count, sub |-> <<t>>]
PackedStructTy(body) == [k |-> "struct", n |-> 0, sub |-> body]

I8 == IntTy(8)
I16 == IntTy(16)
I32 == IntTy(32)
I64 == IntTy(64)

\* DataLayout::getTypeStoreSize, 64-bit pointers.  A packed struct and an array
\* of the types used here have no inner padding.
RECURSIVE getTypeStoreSize(_)
RECURSIVE sumStoreSize(_)
sumStoreSize(ts) ==
    IF ts = <<>> THEN 0 ELSE getTypeStoreSize(Head(ts)) + sumStoreSize(Tail(ts))
getTypeStoreSize(t) ==
    CASE t.k = "int" -> (t.n + 7) \div 8
      [] t.k = "float" -> 4
      [] t.k = "double" -> 8
      [] t.k = "ptr" -> 8
      [] t.k = "arr" -> t.n * getTypeStoreSize(t.sub[1])
      [] t.k = "struct" -> sumStoreSize(t.sub)
      [] OTHER -> 0

\* StructLayout::getElementOffset of a packed struct: the sizes before field idx
\* (idx counted from 0).
getElementOffset(t, idx) == sumStoreSize(SubSeq(t.sub, 1, idx))

\* getTypePriority: the kinds outside the table (double among them) get 0
getTypePriority(t) ==
    CASE t.k = "arr" -> 5
      [] t.k = "struct" -> 4
      [] t.k = "ptr" -> 3
      [] t.k = "float" -> 2
      [] t.k = "int" -> 1
      [] OTHER -> 0

(***************************************************************************)
(* OverlappingTypedAccesses::pad: the types written to the output iterator,*)
(* in the order they are written.                                          *)
(***************************************************************************)
RECURSIVE padLoop(_, _)
padLoop(difference, i) ==
    IF i > 0 /\ difference > 0
    THEN IF difference >= i
         THEN <<IntTy(i * 8)>> \o padLoop(difference - i, i \div 2)
         ELSE padLoop(difference, i \div 2)
    ELSE <<>>

\* pad as it would be with one i8 per byte of the difference
padWithBytes(difference) == [i \in 1..difference |-> I8]

pad(difference) ==
    IF difference > 16
    THEN <<ArrTy(I64, difference \div 8)>>
             \o padLoop(difference - (difference \div 8) * 8, 8)
    ELSE padLoop(difference, 8)

(***************************************************************************)
(* TypedAccess and the overlap window (a sequence of accesses).            *)
(***************************************************************************)
TypedAccess(offset, object, type) == [offset |-> offset, object |-> object, type |-> type]

accessSize(a) == getTypeStoreSize(a.type)
accessEndOffset(a) == a.offset + accessSize(a)

\* OverlappingTypedAccesses::endOffset
windowEndOffset(accesses) ==
    IF Len(accesses) = 0 THEN 0 ELSE accessEndOffset(accesses[Len(accesses)])

\* OverlappingTypedAccesses::insert: whether the access is taken
insertAccepts(accesses, offset) ==
    ~(Len(accesses) # 0 /\ accessEndOffset(accesses[Len(accesses)]) <= offset)

\* the comparator as it would be without the priority of the type kind
sortsBySizeOnly(a, b) ==
    IF a.offset > b.offset THEN TRUE
    ELSE IF a.offset < b.offset THEN FALSE
    ELSE accessSize(a) > accessSize(b)

\* the comparator of the sort in reduce
sortsBefore(a, b) ==
    IF a.offset > b.offset THEN TRUE
    ELSE IF a.offset < b.offset THEN FALSE
    ELSE IF accessSize(a) > accessSize(b) THEN TRUE
    ELSE IF accessSize(a) < accessSize(b) THEN FALSE
    ELSE getTypePriority(a.type) > getTypePriority(b.type)

RECURSIVE sortInsert(_, _)
sortInsert(x, s) ==
    IF s = <<>> THEN <<x>>
    ELSE IF sortsBefore(x, Head(s)) THEN <<x>> \o s
    ELSE <<Head(s)>> \o sortInsert(x, Tail(s))

RECURSIVE sortAccesses(_)
sortAccesses(s) ==
    IF s = <<>> THEN <<>>
    ELSE sortInsert(s[Len(s)], sortAccesses(SubSeq(s, 1, Len(s) - 1)))

\* reduce, lines 447-453: the struct body after the padding at the front
paddedFront(st, iter) ==
    IF st.startOffset - iter.offset > 0
    THEN Reverse(pad(st.startOffset - iter.offset)) \o st.structBody
    ELSE st.structBody

\* reduce, lines 456-462: the struct body after the padding at the back
paddedBack(structBody, st, iter) ==
    IF accessEndOffset(iter) - st.endOffset > 0
    THEN structBody \o pad(accessEndOffset(iter) - st.endOffset)
    ELSE structBody

\* the state of the loop of reduce after one access, given the padded body
reduceIterWith(st, iter, structBody) ==
    [structBody |-> structBody,
     startOffset |-> IF st.startOffset - iter.offset > 0 THEN iter.offset ELSE st.startOffset,
     endOffset |-> IF accessEndOffset(iter) - st.endOffset > 0 THEN accessEndOffset(iter)
                   ELSE st.endOffset,
     fieldCount |-> IF st.startOffset - iter.offset > 0 THEN st.fieldCount + 1
                    ELSE st.fieldCount,
     gepIndices |-> (iter.object :> (0 - Len(structBody))) @@ st.gepIndices]

\* one iteration of the loop of reduce over the sorted accesses
reduceIter(st, iter) == reduceIterWith(st, iter, paddedBack(paddedFront(st, iter), st, iter))

RECURSIVE reduceLoop(_, _)
reduceLoop(st, rest) ==
    IF rest = <<>> THEN st ELSE reduceLoop(reduceIter(st, Head(rest)), Tail(rest))

NoType == [k |-> "null", n |-> 0, sub |-> <<>>]
NoGep == [o \in {} |-> 0]

\* reduce, lines 467-483: the result, from the state the loop ends in
reduceResult(st) ==
    IF st.fieldCount = 1
    THEN [type |-> st.structBody[1], gep |-> NoGep, count |-> 1, asserted |-> FALSE]
    ELSE [type |-> PackedStructTy(st.structBody),
          gep |-> [o \in DOMAIN st.gepIndices |-> st.gepIndices[o] + Len(st.structBody)],
          count |-> st.fieldCount, asserted |-> FALSE]

\* reduce, lines 435-465: the loop over the sorted accesses
reduceSorted(sorted) ==
    reduceResult(reduceLoop([structBody |-> <<sorted[1].type>>,
                             startOffset |-> sorted[1].offset,
                             endOffset |-> accessEndOffset(sorted[1]),
                             fieldCount |-> 1,
                             gepIndices |-> (sorted[1].object :> (0 - 1))],
                            Tail(sorted)))

\* OverlappingTypedAccesses::reduce: the output type, the gep indices and the
\* returned field count; asserted is TRUE when assert(false) is reached.
reduce(accesses) ==
    IF Len(accesses) = 0
    THEN [type |-> NoType, gep |-> NoGep, count |-> 0, asserted |-> TRUE]
    ELSE IF Len(accesses) = 1
    THEN [type |-> accesses[1].type, gep |-> NoGep, count |-> 1, asserted |-> FALSE]
    ELSE reduceSorted(sortAccesses(accesses))

(***************************************************************************)
(* Stack objects.  An object is identified by a key <<tag, id, 0>>: tag    *)
(* "O" for an ObjectStackObject and "S" for a StructureStackObject, id the *)
(* SSA value it was read from.  The link of an overlap window's wrapping   *)
(* struct has the key <<"W", id of its structure, field index>>.           *)
(***************************************************************************)
ObjectKey(id) == <<"O", id, 0>>
StructureKey(id) == <<"S", id, 0>>
WindowKey(parent, index) == <<"W", parent[2], index>>
NoKey == <<"none", 0, 0>>

ObjectStackObject(id) == [kind |-> "Object", key |-> ObjectKey(id), fields |-> <<>>]
StructureStackObject(id, fields) ==
    [kind |-> "Structure", key |-> StructureKey(id), fields |-> fields]
StructureField(offset, object) == [offset |-> offset, object |-> object]

(***************************************************************************)
(* LlvmStackFrame: links, linkMap (the keys of links), typeMap, allObjects.*)
(* status is "ok" until a representObject returns false; asserted records  *)
(* that an assert(false) was passed; reduced lists the calls of reduce.    *)
(***************************************************************************)
GepLink(parent, index, expectedType) ==
    [parent |-> parent, index |-> index, expectedType |-> expectedType]
NewLink == GepLink(NoKey, 0 - 1, NoType)

EmptyFrame ==
    [status |-> "ok", asserted |-> FALSE,
     links |-> [o \in {} |-> NewLink],
     typeMap |-> [o \in {} |-> NoType],
     allObjects |-> <<>>,
     reduced |-> <<>>]

\* LlvmStackFrame::linkFor: the links with one for the object
linkFor(links, object) ==
    IF object \in DOMAIN links THEN links ELSE (object :> NewLink) @@ links

\* GepLink::setIndex then GepLink::setParent on the link of the object
setLink(links, object, parent, index, expectedType) ==
    [linkFor(links, object) EXCEPT ![object] = GepLink(parent, index, expectedType)]

Failed(fr, asserted) == [fr EXCEPT !.status = "fail", !.asserted = @ \/ asserted]

RECURSIVE linkAccesses(_, _, _, _, _)
\* the loops of reduceStructField over the accesses: each access's link gets
\* the parent, and the index gep gives it (the field's index when gep is empty)
linkAccesses(links, accesses, parent, index, gep) ==
    IF accesses = <<>> THEN links
    ELSE linkAccesses(setLink(links, Head(accesses).object, parent,
                              IF Head(accesses).object \in DOMAIN gep
                              THEN gep[Head(accesses).object] ELSE index,
                              Head(accesses).type),
                      Tail(accesses), parent, index, gep)

\* the index the field links get when reduce returns one field
linkIndexOf(index) == index

\* a call of reduce and what it returned
reduceCall(accesses, r, parent, index) ==
    [accesses |-> accesses, type |-> r.type, gep |-> r.gep, count |-> r.count,
     parent |-> parent, index |-> index]

\* reduceStructField, lines 564-601, given what reduce returned
linkReduced(fr, typedAccesses, parentLink, index, r) ==
    IF r.count = 0
    THEN [frame |-> Failed(fr, TRUE), type |-> NoType]
    ELSE IF r.count = 1
    THEN [frame |-> [fr EXCEPT !.links =
                        linkAccesses(@, typedAccesses, parentLink, linkIndexOf(index), NoGep)],
          type |-> r.type]
    ELSE [frame |-> [fr EXCEPT !.links =
                        linkAccesses(setLink(@, WindowKey(parentLink, index), parentLink,
                                             index, r.type),
                                     typedAccesses, WindowKey(parentLink, index), index,
                                     r.gep)],
          type |-> r.type]

reduceStructFieldWith(fr, typedAccesses, parentLink, index, r) ==
    linkReduced([fr EXCEPT !.reduced = Append(@, reduceCall(typedAccesses, r, parentLink, index))],
                typedAccesses, parentLink, index, r)

\* LlvmStackFrame::reduceStructField: the frame after it and the result type
reduceStructField(fr, typedAccesses, parentLink, index) ==
    reduceStructFieldWith(fr, typedAccesses, parentLink, index, reduce(typedAccesses))

RECURSIVE insertAll(_, _, _)
\* the loop of representObject(const ObjectStackObject*) over the witnessed types
insertAll(accesses, object, types) ==
    IF types = <<>> THEN [ok |-> TRUE, accesses |-> accesses]
    ELSE IF insertAccepts(accesses, 0)
    THEN insertAll(Append(accesses, TypedAccess(0, object, Head(types))), object, Tail(types))
    ELSE [ok |-> FALSE, accesses |-> accesses]

\* representObject(const ObjectStackObject*), lines 621-630, given what reduce returned
representLeafReduced(object, fr, accesses, r) ==
    IF r.count # 1
    THEN Failed([fr EXCEPT !.reduced = Append(@, reduceCall(accesses, r, NoKey, 0 - 1))],
                r.asserted)
    ELSE [fr EXCEPT !.reduced = Append(@, reduceCall(accesses, r, NoKey, 0 - 1)),
                    !.typeMap = (object.key :> r.type) @@ @,
                    !.allObjects = Append(@, object.key)]

\* representObject(const ObjectStackObject*), lines 609-620, given the window
representLeafInserted(object, fr, ins) ==
    IF ~ins.ok THEN Failed(fr, FALSE)
    ELSE representLeafReduced(object, fr, ins.accesses, reduce(ins.accesses))

\* LlvmStackFrame::representObject(const ObjectStackObject*); U[key] is what
\* getUnionTypes gives for the object: its types and whether its assert failed.
representLeaf(object, fr, U) ==
    representLeafInserted(object, [fr EXCEPT !.asserted = @ \/ U[object.key].asserted],
                          insertAll(<<>>, object.key, U[object.key].types))

\* the padding as it would be if measured from the start of the window
fieldPaddingFromStart(offset, typedAccesses) == offset - typedAccesses[1].offset

\* the padding pushed after a reduced window: field.offset - endOffset()
fieldPadding(offset, typedAccesses) == offset - windowEndOffset(typedAccesses)

\* lines 655-672: the window is reduced to r, and a new one starts with the access
structFlush(field, ls, access, r) ==
    IF r.frame.status # "ok" THEN [ls |-> ls, frame |-> r.frame]
    ELSE [ls |-> [typedAccesses |-> <<access>>,
                  fieldTypes |->
                     IF fieldPadding(field.offset, ls.typedAccesses) > 0
                     THEN Append(Append(ls.fieldTypes, r.type),
                                 ArrTy(I8, fieldPadding(field.offset, ls.typedAccesses)))
                     ELSE Append(ls.fieldTypes, r.type)],
          frame |-> r.frame]

\* lines 648-672, after the field's object was represented in fr
structIterWith(object, field, ls, fr, access) ==
    IF insertAccepts(ls.typedAccesses, field.offset)
    THEN [ls |-> [ls EXCEPT !.typedAccesses = Append(@, access)], frame |-> fr]
    ELSE structFlush(field, ls, access,
                     reduceStructField(fr, ls.typedAccesses, object.key, Len(ls.fieldTypes)))

structIterRepresented(object, field, ls, fr) ==
    IF fr.status # "ok" THEN [ls |-> ls, frame |-> fr]
    ELSE structIterWith(object, field, ls, fr,
                        TypedAccess(field.offset, field.object.key,
                                    fr.typeMap[field.object.key]))

RECURSIVE representObject(_, _, _)
RECURSIVE structLoop(_, _, _, _, _)

\* One iteration of the loop of representObject(const StructureStackObject*).
\* ls is the loop's state: the overlap window and the field types so far.
structIter(object, field, ls, fr, U) ==
    structIterRepresented(object, field, ls, representObject(field.object, fr, U))

\* lines 687-691: the structure's type
structFinishWith(object, fieldTypes, fr) ==
    IF fr.status # "ok" THEN fr
    ELSE [fr EXCEPT !.typeMap = (object.key :> PackedStructTy(fieldTypes)) @@ @]

\* lines 677-680: the last window is reduced to r
structLastField(object, ls, r) ==
    structFinishWith(object, Append(ls.fieldTypes, r.type), r.frame)

\* after the loop: the last window, then the structure's type
structFinish(object, ls, fr) ==
    IF ls.typedAccesses # <<>>
    THEN structLastField(object, ls,
                         reduceStructField(fr, ls.typedAccesses, object.key,
                                           Len(ls.fieldTypes)))
    ELSE structFinishWith(object, ls.fieldTypes, fr)

EmptyLoop == [typedAccesses |-> <<>>, fieldTypes |-> <<>>]

structLoopNext(object, i, it, U) ==
    IF it.frame.status # "ok" THEN it.frame
    ELSE structLoop(object, i + 1, it.ls, it.frame, U)

structLoop(object, i, ls, fr, U) ==
    IF i > Len(object.fields) THEN structFinish(object, ls, fr)
    ELSE structLoopNext(object, i, structIter(object, object.fields[i], ls, fr, U), U)

\* LlvmStackFrame::representObject(StackObject*)
representObject(object, fr, U) ==
    IF object.kind = "Object" THEN representLeaf(object, fr, U)
    ELSE structLoop(object, 1, EmptyLoop, [fr EXCEPT !.links = linkFor(@, object.key)], U)

\* the static LlvmStackFrame::representObject: the root's link gets index 0
setRootLink(fr, object) ==
    IF fr.status # "ok" THEN fr
    ELSE [fr EXCEPT !.links = [@ EXCEPT ![object.key].index = 0,
                                        ![object.key].expectedType = fr.typeMap[object.key]]]

representRoot(object, U) == setRootLink(representObject(object, EmptyFrame, U), object)

(***************************************************************************)
(* The function's IR.  The value 0 is the stack-pointer argument; the value *)
(* i >= 1 is the instruction insts[i].  An instruction has one operand the  *)
(* pass follows, a:                                                         *)
(*   add       a + the constant c          addv   a + a non-constant value  *)
(*   mul       a binary operator, no add   inttoptr  the cast of a          *)
(*   load      a load of type ty through a                                  *)
(*   store     a store of a value of type ty through a                      *)
(*   storeval  a store of a as the value   call   a call with argument a    *)
(*   phi, icmp                             alloca, gep, bitcast, ptrtoint   *)
(* ins tells where the instruction stands: -2 in the function as it came,   *)
(* 0 at the first insertion point of the entry block, k >= 1 right before   *)
(* instruction k, -1 in no block (created with a null insertion point).     *)
(* md is the "stack frame" metadata.                                        *)
(***************************************************************************)
Inst(kind, a, c, ty) ==
    [kind |-> kind, a |-> a, c |-> c, ty |-> ty, idx |-> <<>>, ins |-> 0 - 2, md |-> FALSE]

BinaryOperators == {"add", "addv", "mul"}
CastInsts == {"inttoptr", "bitcast", "ptrtoint"}

\* Value::users
users(I, v) == {i \in DOMAIN I : I[i].a = v}

\* a replacement that reaches only the first user of the old value
replaceFirstUseWith(I, old, new) ==
    [i \in DOMAIN I |->
        IF I[i].a = old /\ (\A j \in DOMAIN I : I[j].a = old => i <= j)
        THEN [I[i] EXCEPT !.a = new] ELSE I[i]]

\* Value::replaceAllUsesWith
replaceAllUsesWith(I, old, new) ==
    [i \in DOMAIN I |-> IF I[i].a = old THEN [I[i] EXCEPT !.a = new] ELSE I[i]]

\* IdentifyLocals::analyzeObject.  The users are visited in the order of their
\* ids; the map keeps the first instruction inserted for an offset.
analyzeObject(I, base) ==
    LET us == users(I, base)
        consts == {u \in us : I[u].kind = "add"}
    IN  [ok |-> \A u \in us : I[u].kind \in BinaryOperators => I[u].kind = "add",
         hasCastInst |-> \E u \in us : I[u].kind = "inttoptr",
         constantOffsets |->
            [c \in {I[u].c : u \in consts} |->
                CHOOSE u \in consts : I[u].c = c /\ \A w \in consts : I[w].c = c => u <= w],
         variableOffsetsStrides |-> {}]

NoObject == [kind |-> "none", key |-> NoKey, fields |-> <<>>]

RECURSIVE readObject(_, _)
RECURSIVE readFields(_, _, _, _)

\* the loop of readObject over the constant offsets, in ascending order
readFields(I, constantOffsets, offsets, front) ==
    IF offsets = <<>> THEN <<>>
    ELSE LET type == readObject(I, constantOffsets[Head(offsets)])
             rest == readFields(I, constantOffsets, Tail(offsets), front)
         IN  IF type # NoObject
             THEN <<StructureField(Head(offsets) - front, type)>> \o rest
             ELSE rest

\* IdentifyLocals::readObject: the stack object of a base value, or NoObject
readObject(I, base) ==
    LET an == analyzeObject(I, base)
        offsets == ascending(DOMAIN an.constantOffsets)
    IN  IF ~an.ok THEN NoObject
        ELSE IF an.variableOffsetsStrides # {} THEN NoObject
        ELSE IF offsets # <<>>
        THEN StructureStackObject(base,
                (IF an.hasCastInst THEN <<StructureField(0, ObjectStackObject(base))>>
                 ELSE <<>>)
                \o readFields(I, an.constantOffsets, offsets, offsets[1]))
        ELSE ObjectStackObject(base)

RECURSIVE getCastTypes(_, _)
\* ObjectStackObject::getCastTypes: the types loaded or stored through a cast
getCastTypes(I, cast) ==
    UNION {
        IF I[u].kind = "load"
        THEN {I[u].ty} \cup
             (IF I[u].ty.k = "int"
              THEN UNION {{PtrTy(t) : t \in getCastTypes(I, sub)} :
                            sub \in {w \in users(I, u) : I[w].kind = "inttoptr"}}
              ELSE {})
        ELSE IF I[u].kind = "store" THEN {I[u].ty}
        ELSE {} : u \in users(I, cast)}

RECURSIVE setToSeq(_)
\* the elements of a set in the order the set is iterated
setToSeq(S) ==
    IF S = {} THEN <<>>
    ELSE LET x == CHOOSE y \in S : TRUE IN <<x>> \o setToSeq(S \ {x})

\* ObjectStackObject::getUnionTypes of the object read from value v: the types
\* and whether the assert on the kind of a user fails
getUnionTypes(I, v) ==
    LET us == users(I, v)
        found == UNION {getCastTypes(I, u) : u \in {w \in us : I[w].kind \in CastInsts}}
        defaultsToVoid == \E u \in us : I[u].kind \in {"storeval", "call"}
    IN  [types |-> IF found = {} /\ defaultsToVoid THEN <<I8>> ELSE setToSeq(found),
         asserted |-> \E u \in us :
                        I[u].kind \notin CastInsts \cup {"storeval", "call", "phi"}
                                                    \cup BinaryOperators]

RECURSIVE leafKeys(_)
\* the keys of the ObjectStackObjects of a stack object
leafKeys(object) ==
    IF object.kind = "Object" THEN {object.key}
    ELSE UNION {leafKeys(object.fields[i].object) : i \in DOMAIN object.fields}

unionTypesOf(I, object) == [o \in leafKeys(object) |-> getUnionTypes(I, o[2])]

\* GepLink::toVector: the links from the root's to the object's
RECURSIVE toVector(_, _)
toVector(links, key) ==
    IF key = NoKey THEN <<>> ELSE Append(toVector(links, links[key].parent), key)

RECURSIVE getIndexedTypeFrom(_, _)
getIndexedTypeFrom(agg, indices) ==
    IF indices = <<>> THEN agg
    ELSE IF agg.k = "struct" /\ Head(indices) >= 0 /\ Head(indices) < Len(agg.sub)
    THEN getIndexedTypeFrom(agg.sub[Head(indices) + 1], Tail(indices))
    ELSE IF agg.k = "arr" THEN getIndexedTypeFrom(agg.sub[1], Tail(indices))
    ELSE NoType

\* GetElementPtrInst::getIndexedType on a pointer type: the first index steps
\* over the pointer; NoType when the indices select nothing
getIndexedType(ptrType, indices) ==
    IF ptrType.k # "ptr" \/ indices = <<>> THEN NoType
    ELSE getIndexedTypeFrom(ptrType.sub[1], Tail(indices))

Emit(kind, a, ty, idx, insertionPoint) ==
    [kind |-> kind, a |-> a, c |-> 0, ty |-> ty, idx |-> idx, ins |-> insertionPoint,
     md |-> FALSE]

RECURSIVE pointerLoop(_, _, _, _, _, _)
\* the loop of getPointerToObject over the links: the instructions with the
\* emitted ones, the pointer so far, its type, the pending indices
pointerLoop(fr, chain, I, result, resultType, st) ==
    IF chain = <<>>
    THEN IF Len(st) > 1
         THEN [insts |-> Append(I, Emit("gep", result, PtrTy(getIndexedType(resultType, st)),
                                        st, fr.insertionPoint)),
               result |-> Len(I) + 1]
         ELSE [insts |-> I, result |-> result]
    ELSE LET link == fr.links[Head(chain)]
             expected == link.expectedType
             gepIndices == Append(st, link.index)
         IN  IF expected # getIndexedType(resultType, gepIndices)
             THEN LET gep == Emit("gep", result,
                                  PtrTy(getIndexedType(resultType, gepIndices)),
                                  gepIndices, fr.insertionPoint)
                      cast == Emit("bitcast", Len(I) + 1, PtrTy(expected), <<>>,
                                   fr.insertionPoint)
                  IN  pointerLoop(fr, Tail(chain), I \o <<gep, cast>>, Len(I) + 2,
                                  PtrTy(expected), <<0>>)
             ELSE pointerLoop(fr, Tail(chain), I, result, resultType, gepIndices)

\* LlvmStackFrame::getPointerToObject
getPointerToObject(fr, object, basePointer, insertionPoint, I) ==
    pointerLoop([links |-> fr.links, insertionPoint |-> insertionPoint],
                toVector(fr.links, object), I, basePointer, I[basePointer].ty, <<>>)

\* the insertion point of runOnFunction: dyn_cast<Instruction>(offsetInstruction)
insertionPointOf(offsetValue) == IF offsetValue >= 1 THEN offsetValue ELSE 0 - 1

\* the body of the loop of runOnFunction for one object
rewriteObject(I, fr, object, stackFrameId) ==
    LET offsetInstruction == object[2]
        insertionPoint == insertionPointOf(offsetInstruction)
        p == getPointerToObject(fr, object, stackFrameId, insertionPoint, I)
        ptr2int == Emit("ptrtoint", p.result, I64, <<>>, insertionPoint)
        I1 == Append(p.insts, ptr2int)
    IN  [insts |-> replaceAllUsesWith(I1, offsetInstruction, Len(I1)),
         cast |-> Len(I1)]

(***************************************************************************)
(* SpecPad: pad applied to every difference of 1..MaxGap.                  *)
(***************************************************************************)
PassIdle ==
    /\ insts = <<>> /\ hasMd = FALSE /\ ndebug = FALSE /\ pc = "idle" /\ run = 0
    /\ results = <<>> /\ before = <<>> /\ root = ObjectStackObject(0)
    /\ frame = EmptyFrame /\ stackFrame = 0 /\ nextObj = 0 /\ casts = <<>>

LayIdle ==
    /\ layObj = ObjectStackObject(0)
    /\ layU = [o \in {} |-> 0]
    /\ lay = [pc |-> "idle", i |-> 0, ls |-> EmptyLoop, frame |-> EmptyFrame]

PadIdle == padIn = 0 /\ padOut = <<>>

InitPad ==
    /\ padIn \in 1..MaxGap
    /\ padOut = <<>>
    /\ LayIdle /\ PassIdle

ApplyPad ==
    /\ padOut = <<>>
    /\ padOut' = pad(padIn)
    /\ UNCHANGED <<padIn, layVars, passVars>>

NextPad == ApplyPad

SpecPad == InitPad /\ [][NextPad]_vars

(***************************************************************************)
(* SpecLayout: representObject on a structure of leaves, as readObject     *)
(* builds it: an optional implicit leaf at offset 0, then the children in  *)
(* ascending order of their distinct normalized offsets.                   *)
(***************************************************************************)
LeafTypes == {I16, I32, I64}

\* the fields of the structure: implicit is <<>> or <<type>>, offs the
\* offsets in ascending order, tys the type witnessed at each offset
layoutFields(implicit, offs) ==
    [i \in 1..(Len(implicit) + Len(offs)) |->
        IF i <= Len(implicit) THEN StructureField(0, ObjectStackObject(i))
        ELSE StructureField(offs[i - Len(implicit)], ObjectStackObject(i))]

InitLayout ==
    /\ \E implicit \in {<<>>} \cup {<<t>> : t \in LeafTypes} :
       \E S \in SUBSET (0..MaxOffset) :
         /\ Cardinality(S) <= MaxFields
         /\ \E tys \in [S -> LeafTypes] :
              LET offs == ascending(S)
                  n == Len(implicit) + Len(offs)
              IN  /\ layObj = StructureStackObject(0, layoutFields(implicit, offs))
                  /\ layU = [o \in {ObjectKey(i) : i \in 1..n} |->
                               [types |-> IF o[2] <= Len(implicit) THEN implicit
                                          ELSE <<tys[offs[o[2] - Len(implicit)]]>>,
                                asserted |-> FALSE]]
    /\ lay = [pc |-> "loop", i |-> 1, ls |-> EmptyLoop,
              frame |-> [EmptyFrame EXCEPT !.links = linkFor(@, StructureKey(0))]]
    /\ PadIdle /\ PassIdle

\* the loop state after an iteration that gave it
layAfter(i, it) ==
    [pc |-> IF it.frame.status = "ok" THEN "loop" ELSE "done",
     i |-> i, ls |-> it.ls, frame |-> it.frame]

\* one iteration of the field loop
LayoutField ==
    /\ lay.pc = "loop"
    /\ lay.i <= Len(layObj.fields)
    /\ lay' = layAfter(lay.i + 1,
                       structIter(layObj, layObj.fields[lay.i], lay.ls, lay.frame, layU))
    /\ UNCHANGED <<layObj, layU, padVars, passVars>>

\* the end of the loop, and the root link set by the static representObject
LayoutFinish ==
    /\ lay.pc = "loop"
    /\ lay.i > Len(layObj.fields)
    /\ lay' = [lay EXCEPT !.pc = "done",
                          !.frame = setRootLink(structFinish(layObj, lay.ls, lay.frame), layObj)]
    /\ UNCHANGED <<layObj, layU, padVars, passVars>>

NextLayout == LayoutField \/ LayoutFinish

SpecLayout == InitLayout /\ [][NextLayout]_vars

(***************************************************************************)
(* What the layout claims speak about.                                     *)
(***************************************************************************)
\* the byte offset, from the start of the root type, of the position the
\* links of an object select (-1 when an index selects no field)
RECURSIVE linkByteOffset(_, _)
linkByteOffset(fr, key) ==
    LET link == fr.links[key]
    IN  IF link.parent = NoKey THEN 0
        ELSE LET parentType == fr.links[link.parent].expectedType
                 up == linkByteOffset(fr, link.parent)
             IN  IF link.index < 0 \/ link.index >= Len(parentType.sub) \/ up < 0
                 THEN 0 - 1
                 ELSE up + getElementOffset(parentType, link.index)

\* the index, in the structure's type, of the field an object was put in
rootFieldOf(fr, key) ==
    LET link == fr.links[key]
    IN  IF link.parent[1] = "W" THEN fr.links[link.parent].index ELSE link.index

LayDone == lay.pc = "done" /\ lay.frame.status = "ok"
layStart(i) == layObj.fields[i].offset
layEnd(i) == layObj.fields[i].offset + getTypeStoreSize(layU[layObj.fields[i].object.key].types[1])
layIntersect(i, j) == layStart(i) < layEnd(j) /\ layStart(j) < layEnd(i)
layDisjoint == \A i, j \in DOMAIN layObj.fields : i # j => ~layIntersect(i, j)

\* the calls of reduce made for the windows of the structure
windowCalls == SelectSeq(lay.frame.reduced, LAMBDA c : c.parent # NoKey)

RECURSIVE maxEndOffset(_)
\* the greatest end offset of the accesses of a window
maxEndOffset(accesses) ==
    IF accesses = <<>> THEN 0
    ELSE LET m == maxEndOffset(Tail(accesses))
             e == accessEndOffset(Head(accesses))
         IN  IF e > m THEN e ELSE m

\* C3: after a successful layout the byte offset selected by the links of every
\* leaf equals the leaf's normalized offset in the structure.
C3_StructuralOffsetLaw ==
    LayDone =>
        \A i \in DOMAIN layObj.fields :
            linkByteOffset(lay.frame, layObj.fields[i].object.key) = layObj.fields[i].offset

\* C5: a child joins the current window exactly when its offset is below the
\* greatest end offset of the window, so two children whose byte ranges
\* intersect end in the same field of the structure.
C5_OverlapSoundness ==
    /\ (lay.pc = "loop" /\ lay.i <= Len(layObj.fields) /\ lay.ls.typedAccesses # <<>>) =>
          (insertAccepts(lay.ls.typedAccesses, layObj.fields[lay.i].offset)
             <=> layObj.fields[lay.i].offset < maxEndOffset(lay.ls.typedAccesses))
    /\ LayDone =>
          \A i, j \in DOMAIN layObj.fields :
              layIntersect(i, j) =>
                  rootFieldOf(lay.frame, layObj.fields[i].object.key)
                      = rootFieldOf(lay.frame, layObj.fields[j].object.key)

\* the structure of scenario S4: an i32 at offset 0 and an i16 at offset 2
IsS4 ==
    /\ Len(layObj.fields) = 2
    /\ layStart(1) = 0 /\ layU[ObjectKey(1)].types = <<I32>>
    /\ layStart(2) = 2 /\ layU[ObjectKey(2)].types = <<I16>>

\* C7 as stated: the window of S4 reduces to packed { i8, i8, i16 } with the
\* i32 leaf at gep index 0 and the i16 leaf at gep index 2.
C7_S4AsStated ==
    (IsS4 /\ LayDone) =>
        /\ Len(windowCalls) = 1
        /\ windowCalls[1].type = PackedStructTy(<<I8, I8, I16>>)
        /\ windowCalls[1].count > 1
        /\ windowCalls[1].gep[ObjectKey(1)] = 0
        /\ windowCalls[1].gep[ObjectKey(2)] = 2

\* C7 amended: the window of S4 reduces to packed { i16, i16 } with field count
\* 2, the i32 leaf at gep index 0 and the i16 leaf at gep index 1.
C7_S4Amended ==
    (IsS4 /\ LayDone) =>
        /\ Len(windowCalls) = 1
        /\ windowCalls[1].type = PackedStructTy(<<I16, I16>>)
        /\ windowCalls[1].count = 2
        /\ windowCalls[1].gep[ObjectKey(1)] = 0
        /\ windowCalls[1].gep[ObjectKey(2)] = 1

C7_Witness == IsS4 /\ LayDone /\ Len(windowCalls) = 1 /\ windowCalls[1].count > 1

RECURSIVE expectedFields(_, _)
\* for disjoint children from index i on: each child's type, preceded by an i8
\* array as long as the gap to the end of the child before it
expectedFields(i, end) ==
    IF i > Len(layObj.fields) THEN <<>>
    ELSE (IF layStart(i) - end > 0 THEN <<ArrTy(I8, layStart(i) - end)>> ELSE <<>>)
            \o <<layU[ObjectKey(i)].types[1]>> \o expectedFields(i + 1, layEnd(i))

\* the number of expected fields before the one of child i
expectedPosition(i) ==
    IF i = 1 THEN 0
    ELSE Len(expectedFields(1, 0)) - Len(expectedFields(i, layEnd(i - 1)))
            + (IF layStart(i) - layEnd(i - 1) > 0 THEN 1 ELSE 0)

layStartsAtZero == Len(layObj.fields) > 0 /\ layStart(1) = 0

\* C10: children with pairwise disjoint byte ranges, the first at offset 0: the
\* root type lists each child's type after an i8 array as long as the gap before
\* it, each child's link index is its position in that list and its field
\* starts at its normalized offset; 0:i32 and 4:i64 give packed { i32, i64 }.
C10_NonOverlappingLayout ==
    (LayDone /\ layDisjoint /\ layStartsAtZero) =>
        /\ lay.frame.typeMap[layObj.key] = PackedStructTy(expectedFields(1, 0))
        /\ \A i \in DOMAIN layObj.fields :
              LET link == lay.frame.links[ObjectKey(i)]
              IN  /\ link.parent = layObj.key
                  /\ link.index = expectedPosition(i)
                  /\ link.expectedType = layU[ObjectKey(i)].types[1]
                  /\ linkByteOffset(lay.frame, ObjectKey(i)) = layStart(i)
        /\ (/\ Len(layObj.fields) = 2
            /\ layStart(2) = 4
            /\ layU[ObjectKey(1)].types = <<I32>>
            /\ layU[ObjectKey(2)].types = <<I64>>)
              => lay.frame.typeMap[layObj.key] = PackedStructTy(<<I32, I64>>)

C10_Witness ==
    /\ LayDone /\ layDisjoint /\ layStartsAtZero
    /\ Len(layObj.fields) = 3
    /\ layStart(2) > layEnd(1)
    /\ layStart(3) = layEnd(2)

(***************************************************************************)
(* What the padding claim speaks about.                                    *)
(***************************************************************************)
RECURSIVE descendingFillers(_, _)
\* integer types of the sizes 8, 4, 2, 1 below the bound, in descending order
descendingFillers(ts, bound) ==
    IF ts = <<>> THEN TRUE
    ELSE /\ Head(ts).k = "int"
         /\ getTypeStoreSize(Head(ts)) \in {8, 4, 2, 1}
         /\ getTypeStoreSize(Head(ts)) < bound
         /\ descendingFillers(Tail(ts), getTypeStoreSize(Head(ts)))

\* C6: pad(d) emits an int64 array of d/8 elements exactly when d > 16, then
\* integer fillers of descending sizes 8, 4, 2, 1, each at most once, and the
\* store sizes of what it emits sum to d.
C6_PaddingShape ==
    padOut # <<>> =>
        /\ IF padIn > 16
           THEN /\ padOut[1] = ArrTy(I64, padIn \div 8)
                /\ descendingFillers(Tail(padOut), 9)
           ELSE descendingFillers(padOut, 9)
        /\ sumStoreSize(padOut) = padIn

(***************************************************************************)
(* Spec: runOnFunction on a function, MaxRuns times.  The function is the  *)
(* stack pointer with one pattern of direct uses, and up to MaxSlots        *)
(* instructions "sp + c" (distinct c), each with one pattern of uses.       *)
(***************************************************************************)
\* the instructions using value v in pattern p; n is the id of the first one
patternInsts(p, v, n) ==
    CASE p = "none" -> <<>>
      [] p = "load32" -> <<Inst("inttoptr", v, 0, NoType), Inst("load", n, 0, I32)>>
      [] p = "store16" -> <<Inst("inttoptr", v, 0, NoType), Inst("store", n, 0, I16)>>
      [] p = "two" -> <<Inst("inttoptr", v, 0, NoType), Inst("load", n, 0, I32),
                        Inst("store", n, 0, I16)>>
      [] p = "castonly" -> <<Inst("inttoptr", v, 0, NoType)>>
      [] p = "call" -> <<Inst("call", v, 0, NoType)>>
      [] p = "icmp" -> <<Inst("icmp", v, 0, NoType)>>
      [] p = "mul" -> <<Inst("mul", v, 0, NoType)>>
      [] p = "addv" -> <<Inst("addv", v, 0, NoType)>>
      [] p = "nest" -> <<Inst("inttoptr", v, 0, NoType), Inst("load", n, 0, I32),
                         Inst("add", v, 4, NoType),
                         Inst("inttoptr", n + 2, 0, NoType), Inst("load", n + 3, 0, I16)>>

SpPatterns == {"none", "load32", "call", "icmp", "addv"}
SlotPatterns == {"none", "load32", "store16", "two", "castonly", "call", "icmp", "mul", "nest"}
SlotOffsets == {0, 2, 8}

RECURSIVE buildSlots(_, _, _)
\* the instructions I followed by "sp + c" and its uses, for each c of offs
buildSlots(I, offs, pats) ==
    IF offs = <<>> THEN I
    ELSE LET id == Len(I) + 1
         IN  buildSlots(I \o <<Inst("add", 0, Head(offs), NoType)>>
                          \o patternInsts(pats[Head(offs)], id, id + 1),
                        Tail(offs), pats)

GarbageTy == [k |-> "garbage", n |-> 0, sub |-> <<>>]

Init ==
    /\ \E spPat \in SpPatterns :
       \E S \in SUBSET SlotOffsets :
         /\ Cardinality(S) <= MaxSlots
         /\ \E pats \in [S -> SlotPatterns] :
              insts = buildSlots(patternInsts(spPat, 0, 1), ascending(S), pats)
    /\ hasMd \in BOOLEAN
    /\ ndebug \in BOOLEAN
    /\ pc = "start"
    /\ run = 1
    /\ results = <<>>
    /\ before = insts
    /\ root = NoObject
    /\ frame = EmptyFrame
    /\ stackFrame = 0
    /\ nextObj = 0
    /\ casts = <<>>
    /\ PadIdle /\ LayIdle

\* runOnFunction returns false
ReturnsFalse ==
    /\ results' = Append(results, FALSE)
    /\ pc' = "returned"

\* getStackPointer, line 907
GetStackPointer ==
    /\ pc = "start"
    /\ IF hasMd
       THEN pc' = "readObject" /\ UNCHANGED results
       ELSE ReturnsFalse
    /\ UNCHANGED <<insts, hasMd, ndebug, run, before, root, frame, stackFrame, nextObj, casts,
                   padVars, layVars>>

\* readObject(*stackPointer, nullptr), line 908
ReadObject ==
    /\ pc = "readObject"
    /\ root' = readObject(insts, 0)
    /\ IF root' # NoObject
       THEN pc' = "representObject" /\ UNCHANGED results
       ELSE ReturnsFalse
    /\ UNCHANGED <<insts, hasMd, ndebug, run, before, frame, stackFrame, nextObj, casts,
                   padVars, layVars>>

\* what cast<StructureStackObject>(*root) and representObject do with a root
\* that is no Structure: the cast asserts in a build with assertions; without
\* them the object is read as a structure it is not, and the call may crash,
\* return null or return a frame of no object
castOutcomes == IF ndebug THEN {"crash", "null", "frame"} ELSE {"crash"}

\* LlvmStackFrame::representObject(ctx, dl, cast<StructureStackObject>(*root)), line 909
RepresentObject ==
    /\ pc = "representObject"
    /\ IF root.kind # "Structure"
       THEN \E outcome \in castOutcomes :
              /\ frame' = IF outcome = "frame"
                          THEN [EmptyFrame EXCEPT !.typeMap = (root.key :> GarbageTy)]
                          ELSE Failed(EmptyFrame, FALSE)
              /\ IF outcome = "crash" THEN pc' = "aborted" /\ UNCHANGED results
                 ELSE IF outcome = "null" THEN ReturnsFalse
                 ELSE pc' = "alloca" /\ UNCHANGED results
       ELSE /\ frame' = representRoot(root, unionTypesOf(insts, root))
            /\ IF frame'.asserted /\ ~ndebug THEN pc' = "aborted" /\ UNCHANGED results
               ELSE IF frame'.status # "ok" THEN ReturnsFalse
               ELSE pc' = "alloca" /\ UNCHANGED results
    /\ UNCHANGED <<insts, hasMd, ndebug, run, before, root, stackFrame, nextObj, casts,
                   padVars, layVars>>

\* the alloca as it would be without md::setStackFrame
untaggedAlloca(naiveType) == Emit("alloca", 0 - 1, PtrTy(naiveType), <<>>, 0)

\* the alloca of the root's type and its metadata, lines 911-914
stackFrameAlloca(naiveType) ==
    [Emit("alloca", 0 - 1, PtrTy(naiveType), <<>>, 0) EXCEPT !.md = TRUE]

EmitAlloca ==
    /\ pc = "alloca"
    /\ insts' = Append(insts, stackFrameAlloca(frame.typeMap[root.key]))
    /\ stackFrame' = Len(insts) + 1
    /\ nextObj' = 1
    /\ pc' = "rewrite"
    /\ UNCHANGED <<hasMd, ndebug, run, results, before, root, frame, casts, padVars, layVars>>

\* one iteration of the loop over getAllObjects(), lines 915-923
RewriteObject ==
    /\ pc = "rewrite"
    /\ nextObj <= Len(frame.allObjects)
    /\ LET object == frame.allObjects[nextObj]
           r == rewriteObject(insts, frame, object, stackFrame)
       IN  /\ insts' = r.insts
           /\ casts' = Append(casts, [object |-> object, cast |-> r.cast])
    /\ nextObj' = nextObj + 1
    /\ UNCHANGED <<hasMd, ndebug, pc, run, results, before, root, frame, stackFrame,
                   padVars, layVars>>

\* return true, line 924
ReturnsTrue ==
    /\ pc = "rewrite"
    /\ nextObj > Len(frame.allObjects)
    /\ results' = Append(results, TRUE)
    /\ pc' = "returned"
    /\ UNCHANGED <<insts, hasMd, ndebug, run, before, root, frame, stackFrame, nextObj, casts,
                   padVars, layVars>>

\* the pass is run on the function again
RunAgain ==
    /\ pc = "returned"
    /\ run < MaxRuns
    /\ run' = run + 1
    /\ before' = insts
    /\ pc' = "start"
    /\ root' = NoObject
    /\ frame' = EmptyFrame
    /\ stackFrame' = 0
    /\ nextObj' = 0
    /\ casts' = <<>>
    /\ UNCHANGED <<insts, hasMd, ndebug, results, padVars, layVars>>

Next ==
    \/ GetStackPointer
    \/ ReadObject
    \/ RepresentObject
    \/ EmitAlloca
    \/ RewriteObject
    \/ ReturnsTrue
    \/ RunAgain

Spec == Init /\ [][Next]_vars

(***************************************************************************)
(* What the claims about runOnFunction speak about.                        *)
(***************************************************************************)
Returned == pc = "returned" /\ Len(results) = run
ReturnedFalse == Returned /\ results[run] = FALSE
ReturnedTrue == Returned /\ results[run] = TRUE

\* the instructions this run created
created == {i \in DOMAIN insts : i > Len(before)}
createdAllocas == {i \in created : insts[i].kind = "alloca"}

\* C1: when runOnFunction returns "no change" the function is as it was: no
\* instruction created, no metadata attached, no use replaced; an allocation is
\* created only on the path that returns "modified", once, and it carries the
\* "stack frame" metadata.
C1_FailureAllOrNothing ==
    /\ ReturnedFalse => insts = before
    /\ pc \in {"start", "readObject", "representObject", "alloca", "aborted"} => insts = before
    /\ Cardinality(createdAllocas) <= 1
    /\ \A i \in created : insts[i].md => insts[i].kind = "alloca"
    /\ ReturnedTrue =>
          /\ createdAllocas = {stackFrame}
          /\ insts[stackFrame].md

\* a run in which representObject failed on a Structure root
C1_Witness ==
    /\ ReturnedFalse /\ run = 1 /\ hasMd
    /\ root.kind = "Structure" /\ frame.status = "fail"
    /\ Len(root.fields) > 0

\* C2: once the loop of runOnFunction is past a leaf, the leaf's offset value
\* has no users, and every user it had uses the leaf's ptrtoint cast; when the
\* pass returns "modified" this holds of every leaf of getAllObjects().
C2_UseReplacementTotality ==
    (pc = "rewrite" \/ ReturnedTrue) =>
        /\ Len(casts) = nextObj - 1
        /\ ReturnedTrue => Len(casts) = Len(frame.allObjects)
        /\ \A k \in DOMAIN casts :
              /\ casts[k].object = frame.allObjects[k]
              /\ insts[casts[k].cast].kind = "ptrtoint"
              /\ users(insts, casts[k].object[2]) = {}
              /\ \A u \in users(before, casts[k].object[2]) : insts[u].a = casts[k].cast

\* a run that returned "modified" with the stack pointer as implicit leaf and
\* another leaf, each with users
C2_Witness ==
    /\ ReturnedTrue
    /\ Len(casts) >= 2
    /\ casts[1].object = ObjectKey(0)
    /\ \A k \in DOMAIN casts : users(before, casts[k].object[2]) # {}

\* C4: a second run on a function for which the first run returned "modified"
\* returns "no change" and emits nothing.  Stated for the second runs whose
\* root is a Structure, where the behaviour of the code is defined.
C4_Idempotence ==
    (Returned /\ run = 2 /\ results[1] = TRUE /\ root.kind = "Structure") =>
        /\ results[2] = FALSE
        /\ insts = before

\* C8: what readObject returns for the stack pointer is a Structure, and a
\* function whose stack pointer has no uses is left as it was, with "no
\* change" returned.
C8_RootIsStructure ==
    /\ root # NoObject => root.kind = "Structure"
    /\ (users(before, 0) = {} /\ pc \in {"returned", "aborted"}) =>
          ReturnedFalse /\ insts = before

\* the kinds of user the offset classifier is said to allow
AllowList == {"add", "inttoptr", "storeval", "call", "phi"}

RECURSIVE baseValues(_)
\* the values readObject returned an object for
baseValues(object) ==
    IF object.kind = "none" THEN {}
    ELSE {object.key[2]} \cup
         UNION {baseValues(object.fields[i].object) : i \in DOMAIN object.fields}

\* C9: readObject returns none for a base one of whose users is of a kind
\* outside the allow-list, so every base it returned an object for has users
\* of the allowed kinds only.
C9_UnanalyzableUse ==
    \A v \in baseValues(root) : \A u \in users(before, v) : before[u].kind \in AllowList

\* the instructions emitted for the k-th leaf of the loop: its pointer path and
\* its ptrtoint cast
emittedFor(k) ==
    (IF k = 1 THEN stackFrame + 1 ELSE casts[k - 1].cast + 1)..casts[k].cast

\* C11: what is emitted for a leaf stands in a block: right before the leaf's
\* offset value when that is an instruction, before the stack-frame allocation
\* (at the first insertion point of the entry block) when it is the stack
\* pointer argument.
C11_InsertionPoint ==
    \A k \in DOMAIN casts :
        \A i \in emittedFor(k) :
            /\ insts[i].ins # 0 - 1
            /\ insts[i].ins = IF casts[k].object[2] >= 1 THEN casts[k].object[2]
                              ELSE insts[stackFrame].ins

\* C12: reduce is never called on an empty window: every call of reduce the
\* pass makes, for a leaf or for a field of a structure, is given at least one
\* access, and the assert(false) of reduce is not passed.
C12_ReduceNeverEmpty ==
    /\ \A k \in DOMAIN frame.reduced : Len(frame.reduced[k].accesses) >= 1
    /\ root.kind = "Structure" => ~frame.asserted

RECURSIVE minOffset(_)
\* the least offset of the accesses of a non-empty window
minOffset(accesses) ==
    IF Len(accesses) = 1 THEN Head(accesses).offset
    ELSE LET m == minOffset(Tail(accesses))
         IN  IF Head(accesses).offset < m THEN Head(accesses).offset ELSE m

\* C13: when reduce returns a field count above 1, the translated index of every
\* access of the window is an index of a field of the wrapping packed struct, and
\* that field starts at the access's offset minus the least offset of the window.
C13_GepIndexTranslation ==
    \A k \in DOMAIN windowCalls :
        windowCalls[k].count > 1 =>
            \A j \in DOMAIN windowCalls[k].accesses :
                LET access == windowCalls[k].accesses[j]
                    index == windowCalls[k].gep[access.object]
                IN  /\ index >= 0
                    /\ index < Len(windowCalls[k].type.sub)
                    /\ getElementOffset(windowCalls[k].type, index)
                          = access.offset - minOffset(windowCalls[k].accesses)

(***************************************************************************)
(* SpecLeaf: representObject on the ObjectStackObject read from the stack  *)
(* pointer value.  Its users are an int-to-ptr cast with up to             *)
(* MaxWitnesses loads and stores through it, and one other user.           *)
(***************************************************************************)
\* what is done through the cast: a load or a store of a type, or ("ptr") a
\* load of an i64 that is cast to a pointer through which the type is loaded
Witnesses ==
    [how : {"load"}, ty : {I8, I16, I32, I64, FloatTy, DoubleTy}]
        \cup [how : {"store"}, ty : {I16, I32}]
        \cup [how : {"ptr"}, ty : {I8, I32}]

OtherUses == {"none", "storeval", "call", "phi", "icmp"}

RECURSIVE witnessInsts(_, _)
\* the instructions of the witnesses ws through the cast 1; n is the next id
witnessInsts(ws, n) ==
    IF ws = <<>> THEN <<>>
    ELSE IF Head(ws).how = "ptr"
    THEN <<Inst("load", 1, 0, I64), Inst("inttoptr", n, 0, NoType),
           Inst("load", n + 1, 0, Head(ws).ty)>> \o witnessInsts(Tail(ws), n + 3)
    ELSE <<Inst(Head(ws).how, 1, 0, Head(ws).ty)>> \o witnessInsts(Tail(ws), n + 1)

\* the users of the leaf's offset value (the value 0)
leafInsts(W, cast, other) ==
    (IF cast THEN <<Inst("inttoptr", 0, 0, NoType)>> \o witnessInsts(setToSeq(W), 2)
     ELSE <<>>)
        \o (IF other = "none" THEN <<>> ELSE <<Inst(other, 0, 0, NoType)>>)

InitLeaf ==
    /\ \E W \in SUBSET Witnesses :
       \E cast \in BOOLEAN :
       \E other \in OtherUses :
         /\ Cardinality(W) <= MaxWitnesses
         /\ W # {} => cast
         /\ insts = leafInsts(W, cast, other)
    /\ ndebug \in BOOLEAN
    /\ layObj = ObjectStackObject(0)
    /\ layU = [o \in {} |-> 0]
    /\ lay = [pc |-> "leaf", i |-> 0, ls |-> EmptyLoop, frame |-> EmptyFrame]
    /\ hasMd = FALSE /\ pc = "idle" /\ run = 0
    /\ results = <<>> /\ before = <<>> /\ root = ObjectStackObject(0)
    /\ frame = EmptyFrame /\ stackFrame = 0 /\ nextObj = 0 /\ casts = <<>>
    /\ PadIdle

\* the orders in which a SmallPtrSet holding the types may be iterated
orderings(types) ==
    {[i \in DOMAIN types |-> types[f[i]]] :
        f \in {g \in [DOMAIN types -> DOMAIN types] :
                 \A i, j \in DOMAIN types : g[i] = g[j] => i = j}}

\* the state after representObject gave the frame fr: a failed assert ends the
\* program in a build with assertions
leafAfter(fr) ==
    [lay EXCEPT !.pc = IF fr.asserted /\ ~ndebug THEN "aborted" ELSE "done",
                !.frame = fr]

\* getUnionTypes and representObject on the leaf
RepresentLeaf ==
    /\ lay.pc = "leaf"
    /\ \E order \in orderings(getUnionTypes(insts, 0).types) :
         layU' = (layObj.key :> [types |-> order,
                                 asserted |-> getUnionTypes(insts, 0).asserted])
    /\ lay' = leafAfter(representLeaf(layObj, lay.frame, layU'))
    /\ UNCHANGED <<layObj, padVars, passVars>>

NextLeaf == RepresentLeaf

SpecLeaf == InitLeaf /\ [][NextLeaf]_vars

(***************************************************************************)
(* What the claim about the reconciliation of a leaf speaks about.         *)
(***************************************************************************)
leafTypes == layU[layObj.key].types
LeafDone == lay.pc = "done" /\ leafTypes # <<>>
leafCall == lay.frame.reduced[1]

\* C14: for a leaf with at least one witnessed type, every witnessed type is
\* taken into the window at offset 0, reduce returns one field, the leaf is
\* represented, and the type recorded for it is a witnessed type of the greatest
\* store size and, among those, of the greatest priority; a leaf used only as
\* the value of a store or the argument of a call gets i8.
C14_LeafReconciliation ==
    LeafDone =>
        /\ lay.frame.status = "ok"
        /\ Len(lay.frame.reduced) = 1
        /\ leafCall.accesses = [i \in DOMAIN leafTypes |->
                                   TypedAccess(0, layObj.key, leafTypes[i])]
        /\ leafCall.count = 1
        /\ lay.frame.allObjects = <<layObj.key>>
        /\ \E i \in DOMAIN leafTypes : lay.frame.typeMap[layObj.key] = leafTypes[i]
        /\ \A i \in DOMAIN leafTypes :
              LET t == leafTypes[i]
                  naive == lay.frame.typeMap[layObj.key]
              IN  /\ getTypeStoreSize(t) <= getTypeStoreSize(naive)
                  /\ getTypeStoreSize(t) = getTypeStoreSize(naive) =>
                        getTypePriority(t) <= getTypePriority(naive)
        /\ (\A u \in users(insts, 0) : insts[u].kind \in {"storeval", "call"}) =>
              lay.frame.typeMap[layObj.key] = I8

\* a leaf witnessed as i64, as double and as a pointer, three types of the same
\* store size, represented as the pointer
C14_Witness ==
    /\ LeafDone
    /\ Len(leafTypes) = 3
    /\ \A i \in DOMAIN leafTypes : getTypeStoreSize(leafTypes[i]) = 8
    /\ leafTypes[1].k = "double"
    /\ lay.frame.typeMap[layObj.key].k = "ptr"

====
